---- MODULE Spec2Model ----
(* A model of the green-thread runtime of src/main.rs (the not(windows)     *)
(* variant): the thread table and its state machine, spawn's fabricated     *)
(* stack frame, the switch primitive, the guard trampoline and run().       *)
EXTENDS Integers, Sequences, FiniteSets, TLC

(***************************************************************************)
(* Program constants                                                       *)
(***************************************************************************)
DEFAULT_STACK_SIZE == 1024 * 1024 * 2
MAX_THREADS == 4

(***************************************************************************)
(* Bounds of the model                                                     *)
(***************************************************************************)
\* the largest loop count of a spawned body in the general client
MaxIter == 2
\* the number of spawn calls a general client makes
MaxSpawns == 4
\* the largest loop count of a body of a main()-shaped program
MaxLoop == 3
\* the number of 8-byte words modelled at the top of every stack
StackWords == 6

Slots == 0 .. (MAX_THREADS - 1)

(***************************************************************************)
(* Words held by stacks: 0 is the zero fill of vec![0_u8; ...], the others *)
(* are code addresses.                                                     *)
(***************************************************************************)
\* `guard as u64`
GuardAddr == 1
\* the return address pushed by the call of switch in t_yield
SwitchRet == 2
\* `f as u64` for the body that loops n times
FnAddr(n) == 3 + n
IsFnAddr(w) == w >= 3
FnLoops(w) == w - 3
\* what a load from an address outside the modelled words gives
Unmapped == 0 - 1

(***************************************************************************)
(* Memory layout: the buffer of slot i and the stack the process started   *)
(* on (the main thread never runs on threads[0].stack).                    *)
(***************************************************************************)
StackBase(i) == (i + 1) * DEFAULT_STACK_SIZE
OsStackBase == (MAX_THREADS + 1) * DEFAULT_STACK_SIZE
Offsets == {DEFAULT_STACK_SIZE - 8 * k : k \in 1 .. StackWords}
ZeroStack == [o \in Offsets |-> 0]

\* #[derive(Default)] ThreadContext
ThreadContext == [rsp |-> 0, r15 |-> 0, r14 |-> 0, r13 |-> 0, r12 |-> 0, rbx |-> 0, rbp |-> 0]

\* Thread::new(id)
Thread(i) == [id |-> i, stack |-> ZeroStack, ctx |-> ThreadContext, state |-> "Available"]

VARIABLES
    threads,    \* Runtime.threads
    current,    \* Runtime.current
    cpu,        \* the live rsp and callee-saved registers
    osstack,    \* the top words of the stack main() runs on
    pc,         \* per slot: where its code continues when t_yield returns to it
    body,       \* per slot: the loop of the body running in it
    ret,        \* per slot: what the last t_yield that returned to it returned
    log,        \* the lines printed by bodies, as <<slot, counter>>
    halted,     \* "no", or how the process ended
    spawned,    \* the number of spawn calls made
    completed,  \* the number of bodies that have returned into guard
    uses,       \* per slot: the number of bodies placed in it
    waits,      \* per slot: the switches that passed it over since it is Ready
    prog        \* the loop counts a main()-shaped program spawns, in order

vars == <<threads, current, cpu, osstack, pc, body, ret, log, halted, spawned, completed, uses,
          waits, prog>>

(***************************************************************************)
(* Loads and stores of one word                                            *)
(***************************************************************************)
InSlotStack(i, a) == (a - StackBase(i)) \in Offsets
InOsStack(a) == (a - OsStackBase) \in Offsets

Load(th, os, a) ==
    IF \E i \in Slots : InSlotStack(i, a)
    THEN LET i == CHOOSE j \in Slots : InSlotStack(j, a) IN th[i].stack[a - StackBase(i)]
    ELSE IF InOsStack(a) THEN os[a - OsStackBase] ELSE Unmapped

StoreTh(th, a, w) ==
    [i \in Slots |->
        IF InSlotStack(i, a)
        THEN [th[i] EXCEPT !.stack = [@ EXCEPT ![a - StackBase(i)] = w]]
        ELSE th[i]]

StoreOs(os, a, w) == IF InOsStack(a) THEN [os EXCEPT ![a - OsStackBase] = w] ELSE os

(***************************************************************************)
(* Runtime::t_yield, lines 91-100: the scan for a Ready slot                *)
(***************************************************************************)
NotFound == 0 - 1

NextPos(pos) == IF pos + 1 = MAX_THREADS THEN 0 ELSE pos + 1

\* Mutant: the scan starts at slot 0 instead of at current.
ScanLowest(th, cur, pos) ==
    IF \E i \in Slots : th[i].state = "Ready"
    THEN CHOOSE i \in Slots :
            th[i].state = "Ready" /\ \A j \in 0 .. (i - 1) : th[j].state # "Ready"
    ELSE NotFound

\* Mutant: a scan that comes back to current selects it instead of giving up.
ScanSelf(th, cur, pos) ==
    IF \E i \in Slots : th[i].state = "Ready"
    THEN CHOOSE i \in Slots :
            \E e \in 0 .. (MAX_THREADS - 1) :
                /\ i = (cur + e) % MAX_THREADS
                /\ th[i].state = "Ready"
                /\ \A f \in 0 .. (e - 1) : th[(cur + f) % MAX_THREADS].state # "Ready"
    ELSE cur

\* Mutant: the scan steps to lower indices.
ScanDown(th, cur, pos) ==
    IF \E i \in Slots : th[i].state = "Ready"
    THEN CHOOSE i \in Slots :
            \E e \in 0 .. (MAX_THREADS - 1) :
                /\ i = (cur + MAX_THREADS - e) % MAX_THREADS
                /\ th[i].state = "Ready"
                /\ \A f \in 0 .. (e - 1) :
                        th[(cur + MAX_THREADS - f) % MAX_THREADS].state # "Ready"
    ELSE NotFound

RECURSIVE Scan(_, _, _)
Scan(th, cur, pos) ==
    IF th[pos].state = "Ready"
    THEN pos
    ELSE IF NextPos(pos) = cur THEN NotFound ELSE Scan(th, cur, NextPos(pos))

(***************************************************************************)
(* switch(old, new), lines 154-178. rsp already points at the return       *)
(* address its call pushed. The result is the machine after `ret`, with    *)
(* the word `ret` popped in field target.                                  *)
(***************************************************************************)
\* `ret`, line 171 and the return of a body: rsp after the return address is popped
RetPop(rsp) == rsp + 8

\* Mutant: rbx is stored from the wrong register.
SaveCtxShifted(regs) == [regs EXCEPT !.rbx = regs.rbp]

SaveCtx(regs) == regs

switch(th, os, regs, old, new) ==
    LET th1 == [th EXCEPT ![old].ctx = SaveCtx(regs)]
        loaded == th1[new].ctx
        target == Load(th1, os, loaded.rsp)
    IN  [threads |-> th1,
         cpu |-> [loaded EXCEPT !.rsp = RetPop(@)],
         target |-> target]

(***************************************************************************)
(* Runtime::t_yield, lines 90-116, called with rsp = regs.rsp. The result  *)
(* says whether it switched; if not, it has returned false to its caller.  *)
(***************************************************************************)
\* Mutant: the yielding slot is left Running.
DemoteKeep(st) == st

\* Mutant: the slot that calls t_yield is made Ready even when it is Available.
DemoteAlways(st) == "Ready"

Demote(st) == IF st # "Available" THEN "Ready" ELSE st

t_yield(th, os, cur, regs) ==
    LET pos == Scan(th, cur, cur) IN
    IF pos = NotFound
    THEN [switched |-> FALSE, threads |-> th, osstack |-> os, current |-> cur,
          cpu |-> regs, target |-> 0]
    ELSE
        LET th1 == [th EXCEPT ![cur].state = Demote(@)]
            th2 == [th1 EXCEPT ![pos].state = "Running"]
            \* call switch: push the return address
            sp == regs.rsp - 8
            th3 == StoreTh(th2, sp, SwitchRet)
            os1 == StoreOs(os, sp, SwitchRet)
            sw == switch(th3, os1, [regs EXCEPT !.rsp = sp], cur, pos)
        IN  [switched |-> TRUE, threads |-> sw.threads, osstack |-> os1, current |-> pos,
             cpu |-> sw.cpu, target |-> sw.target]

\* Mutant: t_yield reports false after it was switched back to.
YieldRetFalse == MAX_THREADS = 0

\* line 115: the value t_yield returns after it was switched back to
YieldRet == MAX_THREADS > 0

BoolStr(b) == IF b THEN "true" ELSE "false"

(***************************************************************************)
(* Runtime::spawn, lines 119-134                                           *)
(***************************************************************************)
HasAvailable(th) == \E i \in Slots : th[i].state = "Available"

\* Mutant: find takes the last Available slot.
FindLastAvailable(th) ==
    CHOOSE i \in Slots : /\ th[i].state = "Available"
                         /\ \A j \in Slots : th[j].state = "Available" => j <= i

\* Mutant: find takes the first slot that is not Running.
FindNotRunning(th) ==
    CHOOSE i \in Slots : /\ th[i].state # "Running"
                         /\ \A j \in Slots : th[j].state # "Running" => i <= j

FindAvailable(th) ==
    CHOOSE i \in Slots : /\ th[i].state = "Available"
                         /\ \A j \in Slots : th[j].state = "Available" => i <= j

\* Mutant: spawn leaves the slot Available.
spawnNoReady(th, n) ==
    LET a == FindAvailable(th)
        size == DEFAULT_STACK_SIZE
        s1 == [th[a].stack EXCEPT ![size - 24] = GuardAddr]
        s2 == [s1 EXCEPT ![size - 32] = FnAddr(n)]
    IN  [th EXCEPT ![a] = [@ EXCEPT !.stack = s2,
                                    !.ctx = [@ EXCEPT !.rsp = StackBase(a) + (size - 32)]]]

\* Mutant: the two addresses are written at each other's offset.
spawnSwapped(th, n) ==
    LET a == FindAvailable(th)
        size == DEFAULT_STACK_SIZE
        s1 == [th[a].stack EXCEPT ![size - 32] = GuardAddr]
        s2 == [s1 EXCEPT ![size - 24] = FnAddr(n)]
    IN  [th EXCEPT ![a] = [@ EXCEPT !.stack = s2,
                                    !.ctx = [@ EXCEPT !.rsp = StackBase(a) + (size - 32)],
                                    !.state = "Ready"]]

\* Mutant: spawn builds the whole context anew.
spawnResetCtx(th, n) ==
    LET a == FindAvailable(th)
        size == DEFAULT_STACK_SIZE
        s1 == [th[a].stack EXCEPT ![size - 24] = GuardAddr]
        s2 == [s1 EXCEPT ![size - 32] = FnAddr(n)]
    IN  [th EXCEPT ![a] = [@ EXCEPT !.stack = s2,
                                    !.ctx = [ThreadContext EXCEPT
                                                !.rsp = StackBase(a) + (size - 32)],
                                    !.state = "Ready"]]

spawn(th, n) ==
    LET a == FindAvailable(th)
        size == DEFAULT_STACK_SIZE
        s1 == [th[a].stack EXCEPT ![size - 24] = GuardAddr]
        s2 == [s1 EXCEPT ![size - 32] = FnAddr(n)]
    IN  [th EXCEPT ![a] = [@ EXCEPT !.stack = s2,
                                    !.ctx = [@ EXCEPT !.rsp = StackBase(a) + (size - 32)],
                                    !.state = "Ready"]]

(***************************************************************************)
(* Where code continues. pc[i] is the caller t_yield returns to in slot i: *)
(*   "main"  main() itself, between its calls (lines 181-201)              *)
(*   "run"   the loop of run(), line 79                                    *)
(*   "exit"  run() past its loop, line 80                                  *)
(*   "body"  the loop of a spawned body (its yield_thread call, 188/197)   *)
(*   "guard" t_return called by guard, line 86                             *)
(*   "none"  no code has run in the slot                                   *)
(***************************************************************************)
MainRsp == OsStackBase + DEFAULT_STACK_SIZE - 8

NoBody == [n |-> 0, i |-> 0]

\* The callee-saved registers a body keeps its loop in: the counter and the limit.
BodyRegs(regs, b) == [regs EXCEPT !.rbx = b.i, !.r12 = b.n]

\* t_yield has returned v to the code of slot j, which runs with registers regs.
Returned(j, v, regs, pcs, rets, h) ==
    LET p == pcs[j] IN
    [cpu |-> [regs EXCEPT !.rsp = IF p = "run" THEN @ + 8 ELSE @ + 16],
     pc |-> IF p = "run" /\ ~v THEN [pcs EXCEPT ![j] = "exit"] ELSE pcs,
     ret |-> [rets EXCEPT ![j] = BoolStr(v)],
     \* t_return returns to guard, and guard returns into no frame
     halted |-> IF p \in {"guard", "none"} THEN "ub" ELSE h]

\* switch has popped `target` in slot j.
Landed(j, target, regs, pcs, bodies, rets, h) ==
    IF target = SwitchRet
    THEN LET r == Returned(j, YieldRet, regs, pcs, rets, h)
         IN  [cpu |-> r.cpu, pc |-> r.pc, body |-> bodies, ret |-> r.ret, halted |-> r.halted]
    ELSE IF IsFnAddr(target)
    THEN LET b == [n |-> FnLoops(target), i |-> 0]
         IN  [cpu |-> BodyRegs(regs, b), pc |-> [pcs EXCEPT ![j] = "body"],
              body |-> [bodies EXCEPT ![j] = b], ret |-> [rets EXCEPT ![j] = "none"],
              halted |-> h]
    ELSE [cpu |-> regs, pc |-> pcs, body |-> bodies, ret |-> rets, halted |-> "ub"]

\* The count of the switches that passed each slot over, after a switch from
\* table th to table th1: a slot counts while it stays Ready.
PassedOver(w, th, th1) ==
    [i \in Slots |->
        IF th[i].state = "Ready" /\ th1[i].state = "Ready"
        THEN IF w[i] < MAX_THREADS THEN w[i] + 1 ELSE w[i]
        ELSE 0]

\* The running slot calls t_yield two calls deep (from run, yield_thread or
\* t_return), the table being th, its registers regs and the callers pcs.
Yield(th, regs, pcs, bodies) ==
    LET y == t_yield(th, osstack, current, [regs EXCEPT !.rsp = @ - 16])
        r == IF y.switched
             THEN Landed(y.current, y.target, y.cpu, pcs, bodies, ret, halted)
             ELSE LET q == Returned(current, FALSE, y.cpu, pcs, ret, halted)
                  IN  [cpu |-> q.cpu, pc |-> q.pc, body |-> bodies, ret |-> q.ret,
                       halted |-> q.halted]
    IN  /\ threads' = y.threads
        /\ osstack' = y.osstack
        /\ current' = y.current
        /\ cpu' = r.cpu
        /\ pc' = r.pc
        /\ body' = r.body
        /\ ret' = r.ret
        /\ halted' = r.halted
        /\ waits' = IF y.switched THEN PassedOver(waits, th, y.threads) ELSE waits

(***************************************************************************)
(* Runtime::new, lines 53-69, and init; main() is about to make its calls. *)
(***************************************************************************)
NewThreads == [i \in Slots |-> IF i = 0 THEN [Thread(0) EXCEPT !.state = "Running"] ELSE Thread(i)]

InitRuntime ==
    /\ threads = NewThreads
    /\ current = 0
    /\ cpu = [ThreadContext EXCEPT !.rsp = MainRsp]
    /\ osstack = ZeroStack
    /\ pc = [i \in Slots |-> IF i = 0 THEN "main" ELSE "none"]
    /\ body = [i \in Slots |-> NoBody]
    /\ ret = [i \in Slots |-> "none"]
    /\ log = <<>>
    /\ halted = "no"
    /\ spawned = 0
    /\ completed = 0
    /\ uses = [i \in Slots |-> 0]
    /\ waits = [i \in Slots |-> 0]

Init == InitRuntime /\ prog = <<>>

(***************************************************************************)
(* The calls of a client                                                   *)
(***************************************************************************)
\* runtime.spawn(f), f looping n times; .expect panics when no slot is Available
Spawn(n) ==
    /\ halted = "no"
    /\ pc[current] \in {"main", "body"}
    /\ spawned' = spawned + 1
    /\ IF HasAvailable(threads)
       THEN /\ threads' = spawn(threads, n)
            /\ uses' = [uses EXCEPT ![FindAvailable(threads)] = @ + 1]
            /\ halted' = halted
       ELSE /\ threads' = threads
            /\ uses' = uses
            /\ halted' = "panic"
    /\ UNCHANGED <<current, cpu, osstack, pc, body, ret, log, completed, waits, prog>>

\* main() or a body of the general client calls spawn
ClientSpawn ==
    /\ prog = <<>>
    /\ spawned < MaxSpawns
    /\ \E n \in 0 .. MaxIter : Spawn(n)

\* main() calls yield_thread() before run()
MainYield ==
    /\ halted = "no"
    /\ prog = <<>>
    /\ current = 0
    /\ pc[0] = "main"
    /\ Yield(threads, cpu, pc, body)
    /\ UNCHANGED <<log, spawned, completed, uses, prog>>

\* main() calls runtime.run()
MainRun ==
    /\ halted = "no"
    /\ current = 0
    /\ pc[0] = "main"
    /\ spawned >= Len(prog)
    /\ pc' = [pc EXCEPT ![0] = "run"]
    /\ cpu' = [cpu EXCEPT !.rsp = @ - 8]
    /\ UNCHANGED <<threads, current, osstack, body, ret, log, halted, spawned, completed, uses,
                   waits, prog>>

\* run(): one evaluation of the loop condition self.t_yield(), line 79
RunYield ==
    /\ halted = "no"
    /\ current = 0
    /\ pc[0] = "run"
    /\ Yield(threads, [cpu EXCEPT !.rsp = @ + 8], pc, body)
    /\ UNCHANGED <<log, spawned, completed, uses, prog>>

\* run(): std::process::exit(0), line 80
RunExit ==
    /\ halted = "no"
    /\ current = 0
    /\ pc[0] = "exit"
    /\ halted' = "exit0"
    /\ UNCHANGED <<threads, current, cpu, osstack, pc, body, ret, log, spawned, completed, uses,
                   waits, prog>>

\* The bodies main() spawns print a line per iteration (lines 187, 196); the
\* bodies of the general client only yield.
Prints == prog # <<>>

\* a body prints its line and calls yield_thread(), lines 186-189
BodyIter ==
    /\ halted = "no"
    /\ pc[current] = "body"
    /\ body[current].i < body[current].n
    /\ log' = IF Prints THEN Append(log, <<current, body[current].i>>) ELSE log
    /\ LET b == [body[current] EXCEPT !.i = @ + 1]
       IN  Yield(threads, BodyRegs(cpu, b), pc, [body EXCEPT ![current] = b])
    /\ UNCHANGED <<spawned, completed, uses, prog>>

\* Mutant: t_return does not give the slot back.
t_returnKeep(th, cur) == th

\* Runtime::t_return, lines 83-88, on the table th
t_return(th, cur) == [th EXCEPT ![cur].state = "Available"]

\* a body returns: `ret` pops the word above its frame, which spawn made guard
BodyReturn ==
    /\ halted = "no"
    /\ pc[current] = "body"
    /\ body[current].i = body[current].n
    /\ completed' = completed + 1
    /\ IF Load(threads, osstack, cpu.rsp) # GuardAddr
       THEN /\ halted' = "ub"
            /\ UNCHANGED <<threads, current, cpu, osstack, pc, body, ret, waits>>
       ELSE IF current = 0
       THEN \* t_return does nothing for slot 0, and guard returns into no frame
            /\ halted' = "ub"
            /\ UNCHANGED <<threads, current, cpu, osstack, pc, body, ret, waits>>
       ELSE LET regs == [cpu EXCEPT !.rsp = RetPop(@)]
                th == t_return(threads, current)
            IN  Yield(th, regs, [pc EXCEPT ![current] = "guard"], body)
    /\ UNCHANGED <<log, spawned, uses, prog>>

Next ==
    \/ ClientSpawn
    \/ MainYield
    \/ MainRun
    \/ RunYield
    \/ RunExit
    \/ BodyIter
    \/ BodyReturn

Spec == Init /\ [][Next]_vars

(***************************************************************************)
(* Programs of the shape of main(), lines 180-202: spawn some bodies, then *)
(* run().                                                                  *)
(***************************************************************************)
\* `for i in 0..10` of the first body of main()
MainLoopA == 10
\* `for i in 0..15` of the second body of main()
MainLoopB == 15

Programs ==
    {<<MainLoopA, MainLoopB>>}
        \cup UNION {[1 .. k -> 0 .. MaxLoop] : k \in 0 .. (MAX_THREADS - 1)}

InitMain == InitRuntime /\ prog \in Programs

\* main() makes its next runtime.spawn call
ProgSpawn ==
    /\ current = 0
    /\ pc[0] = "main"
    /\ spawned < Len(prog)
    /\ Spawn(prog[spawned + 1])

NextMain ==
    \/ ProgSpawn
    \/ MainRun
    \/ RunYield
    \/ RunExit
    \/ BodyIter
    \/ BodyReturn

SpecMain == InitMain /\ [][NextMain]_vars

\* One hardware execution stream: the code that is running keeps running.
LiveSpecMain == SpecMain /\ WF_vars(NextMain)

(***************************************************************************)
(* Vocabulary of the properties                                            *)
(***************************************************************************)
\* a step in which the running slot calls t_yield directly
YieldCall == MainYield \/ RunYield \/ BodyIter
\* a step in which a body returns into guard, which calls t_return
ReturnCall == BodyReturn
\* a step in which spawn is called
SpawnCall == spawned' = spawned + 1

AnyReady(th) == \E i \in Slots : th[i].state = "Ready"

\* the Ready slot that is cyclically closest after cur
CyclicFirstReady(th, cur) ==
    LET d == CHOOSE e \in 1 .. MAX_THREADS :
                /\ th[(cur + e) % MAX_THREADS].state = "Ready"
                /\ \A f \in 1 .. (e - 1) : th[(cur + f) % MAX_THREADS].state # "Ready"
    IN  (cur + d) % MAX_THREADS

RunningSlots == {i \in Slots : threads[i].state = "Running"}

RECURSIVE SumUses(_)
SumUses(k) == IF k < 0 THEN 0 ELSE uses[k] + SumUses(k - 1)

(***************************************************************************)
(* C1: between scheduler operations exactly one slot is Running, and it is *)
(* threads[current].                                                       *)
(***************************************************************************)
C1_OneRunning == RunningSlots = {current}

\* a body has returned and another body is running
C1_Witness == current # 0 /\ completed > 0 /\ halted = "no"

(***************************************************************************)
(* C2: while no body has completed, the first MAX_THREADS - 1 spawn calls  *)
(* succeed, each turning one slot Available -> Ready, and the next one     *)
(* panics leaving every slot's state and current unchanged.                *)
(***************************************************************************)
C2_Capacity ==
    [][(SpawnCall /\ completed = 0) =>
        IF spawned < MAX_THREADS - 1
        THEN /\ halted' = "no"
             /\ \E a \in Slots :
                    /\ threads[a].state = "Available"
                    /\ threads'[a].state = "Ready"
                    /\ \A i \in Slots \ {a} : threads'[i].state = threads[i].state
        ELSE /\ halted' = "panic"
             /\ \A i \in Slots : threads'[i].state = threads[i].state
             /\ current' = current]_vars

\* the call after MAX_THREADS - 1 successful ones has failed
C2_Witness == halted = "panic" /\ completed = 0 /\ spawned = MAX_THREADS

C4_RunTerminates ==
    /\ (pc[0] = "run") ~> (halted = "exit0")
    /\ [][(RunYield /\ prog = <<>>) =>
            /\ pc'[0] = "exit"
            /\ current' = current
            /\ threads' = threads]_vars

\* run() has exited after three bodies ran
C4_Witness == halted = "exit0" /\ completed = MAX_THREADS - 1

(***************************************************************************)
(* C5: when run() calls process exit, current is 0, every other slot is    *)
(* Available and every body that was spawned has returned.                 *)
(***************************************************************************)
C5_ExitWhenDone ==
    halted = "exit0" =>
        /\ current = 0
        /\ \A i \in Slots \ {0} :
                /\ threads[i].state = "Available"
                /\ pc[i] \in {"none", "guard"}
        /\ completed = SumUses(MAX_THREADS - 1)

\* run() has exited after bodies ran, one of them in a reused slot
C5_Witness == halted = "exit0" /\ completed >= 2 /\ \E i \in Slots : uses[i] >= 2

(***************************************************************************)
(* C6: a body's return leaves its slot Available; spawn then picks the     *)
(* slot whenever it is the lowest Available one and sets it up as for a    *)
(* first spawn, and the first switch into it starts the new body at its    *)
(* first iteration.                                                        *)
(***************************************************************************)
C6_SlotReuse ==
    [][/\ (ReturnCall /\ halted' = "no") =>
            /\ threads'[current].state = "Available"
            /\ pc'[current] = "guard"
       /\ \A a \in Slots :
            (SpawnCall /\ uses'[a] = uses[a] + 1) =>
                /\ threads[a].state = "Available"
                /\ \A j \in 0 .. (a - 1) : threads[j].state # "Available"
                /\ threads'[a].state = "Ready"
                /\ threads'[a].ctx.rsp = StackBase(a) + DEFAULT_STACK_SIZE - 32
                /\ IsFnAddr(Load(threads', osstack', threads'[a].ctx.rsp))
                /\ Load(threads', osstack', threads'[a].ctx.rsp + 8) = GuardAddr
       /\ \A a \in Slots :
            (uses[a] >= 2 /\ pc[a] = "guard" /\ current' = a /\ current # a) =>
                /\ pc'[a] = "body"
                /\ body'[a].i = 0
                /\ FnAddr(body'[a].n) = Load(threads, osstack, threads[a].ctx.rsp)
                /\ cpu'.rsp = StackBase(a) + DEFAULT_STACK_SIZE - 24
                /\ halted' = "no"]_vars

\* the second body placed in a slot has returned as well
C6_Witness ==
    \E i \in Slots :
        /\ uses[i] >= 2
        /\ pc[i] = "guard"
        /\ threads[i].state = "Available"
        /\ completed >= 2
        /\ halted = "no"

(***************************************************************************)
(* C7: a t_yield called while no other slot is Ready returns false and     *)
(* leaves current, every slot's state and every saved context unchanged.   *)
(***************************************************************************)
C7_NoOpYield ==
    [][(YieldCall /\ ~ \E i \in Slots \ {current} : threads[i].state = "Ready") =>
            /\ ret'[current] = "false"
            /\ current' = current
            /\ \A i \in Slots :
                    /\ threads'[i].state = threads[i].state
                    /\ threads'[i].ctx = threads[i].ctx
            /\ cpu' = cpu]_vars

\* main's yield_thread() found nothing to switch to after bodies had run
C7_Witness ==
    /\ ret[0] = "false"
    /\ pc[0] = "main"
    /\ completed > 0
    /\ \E i \in Slots : threads[i].ctx.rsp # 0

(***************************************************************************)
(* C8: with body A of a iterations in slot 1 and body B of b >= a          *)
(* iterations in slot 2 (main(): 10 and 15), the lines printed are         *)
(* A0 B0 ... A(a-1) B(a-1) B(a) ... B(b-1), and then the process exits     *)
(* with status 0.                                                          *)
(***************************************************************************)
Alternation(a, b) ==
    [k \in 1 .. (a + b) |->
        IF k <= 2 * a
        THEN IF k % 2 = 1 THEN <<1, (k - 1) \div 2>> ELSE <<2, (k - 2) \div 2>>
        ELSE <<2, k - a - 1>>]

IsPrefix(s, t) == Len(s) <= Len(t) /\ \A k \in 1 .. Len(s) : s[k] = t[k]

C8_Alternation ==
    (Len(prog) = 2 /\ prog[1] <= prog[2]) =>
        /\ IsPrefix(log, Alternation(prog[1], prog[2]))
        /\ halted \in {"no", "exit0"}
        /\ halted = "exit0" => log = Alternation(prog[1], prog[2])

\* main() itself has run to its exit
C8_Witness ==
    /\ prog = <<MainLoopA, MainLoopB>>
    /\ halted = "exit0"
    /\ Len(log) = MainLoopA + MainLoopB

(***************************************************************************)
(* C9: with N bodies in slots 1..N that each loop K >= 1 times, the lines  *)
(* printed go round the slots 1, 2, ..., N, 1, 2, ...: between two lines   *)
(* the slot index steps to the next slot or wraps from N to 1, and every   *)
(* body prints once per round.                                             *)
(***************************************************************************)
SameLoops == Len(prog) >= 1 /\ prog[1] >= 1 /\ \A k \in 1 .. Len(prog) : prog[k] = prog[1]

C9_Rounds ==
    SameLoops =>
        /\ \A k \in 1 .. Len(log) :
                log[k] = <<((k - 1) % Len(prog)) + 1, (k - 1) \div Len(prog)>>
        /\ \A k \in 1 .. (Len(log) - 1) :
                log[k + 1][1] # log[k][1] =>
                    \/ log[k + 1][1] = log[k][1] + 1
                    \/ log[k][1] = Len(prog) /\ log[k + 1][1] = 1
        /\ halted \in {"no", "exit0"}
        /\ halted = "exit0" => Len(log) = Len(prog) * prog[1]

\* three bodies of two iterations each have run to the exit
C9_Witness ==
    /\ Len(prog) = MAX_THREADS - 1
    /\ SameLoops
    /\ prog[1] >= 2
    /\ halted = "exit0"

(***************************************************************************)
(* C10: a slot's state changes only Available -> Ready in spawn,           *)
(* Ready -> Running in the slot t_yield selects, Running -> Ready in the   *)
(* slot that calls t_yield, and Running -> Available in a slot other than  *)
(* 0 whose body returns into t_return; spawn never touches a slot that is  *)
(* not Available.                                                          *)
(***************************************************************************)
C10_Transitions ==
    [][/\ \A i \in Slots :
            threads'[i].state # threads[i].state =>
                \/ /\ threads[i].state = "Available"
                   /\ threads'[i].state = "Ready"
                   /\ SpawnCall
                \/ /\ threads[i].state = "Ready"
                   /\ threads'[i].state = "Running"
                   /\ YieldCall \/ ReturnCall
                   /\ current' = i
                \/ /\ threads[i].state = "Running"
                   /\ threads'[i].state = "Ready"
                   /\ YieldCall
                   /\ i = current
                \/ /\ threads[i].state = "Running"
                   /\ threads'[i].state = "Available"
                   /\ ReturnCall
                   /\ i = current
                   /\ i # 0
       /\ SpawnCall =>
            \A i \in Slots : threads[i].state # "Available" => threads'[i] = threads[i]]_vars

\* a slot was reused, and its second body has yielded, resumed and returned
C10_Witness ==
    \E i \in Slots :
        /\ uses[i] >= 2
        /\ threads[i].state = "Available"
        /\ pc[i] = "guard"
        /\ ret[i] = "true"

(***************************************************************************)
(* C11: when a body returns into guard, t_return makes its slot Available  *)
(* and the t_yield it calls switches to another slot, so t_return and      *)
(* guard never return; the finished slot runs again only after a spawn put *)
(* a new body in it, and then at that body's entry.                        *)
(***************************************************************************)
C11_NoFallThrough ==
    /\ [](halted # "ub")
    /\ [](pc[current] # "guard")
    /\ [][ReturnCall =>
            /\ threads'[current].state = "Available"
            /\ pc'[current] = "guard"
            /\ current' # current
            /\ ret'[current] = ret[current]
            /\ halted' = "no"]_vars
    /\ [][\A i \in Slots :
            (pc[i] = "guard" /\ current' = i) =>
                /\ uses'[i] >= 2
                /\ pc'[i] = "body"
                /\ body'[i].i = 0]_vars

\* a finished slot lies Available while another body runs
C11_Witness ==
    \E i \in Slots :
        /\ pc[i] = "guard"
        /\ threads[i].state = "Available"
        /\ current \notin {0, i}
        /\ halted = "no"

(***************************************************************************)
(* C12: a slot that was switched out runs again only when a t_yield        *)
(* selects it; the saved context of a slot that stays Ready is changed by  *)
(* no step, and on resumption the live registers are the saved ones, so a  *)
(* body finds its stack pointer, loop counter and loop limit as it left    *)
(* them.                                                                   *)
(***************************************************************************)
SavedRegs(c) == <<c.r15, c.r14, c.r13, c.r12, c.rbx, c.rbp>>

C12_ContextFidelity ==
    /\ [](pc[current] = "body" =>
            /\ cpu.rbx = body[current].i
            /\ cpu.r12 = body[current].n
            /\ cpu.rsp = StackBase(current) + DEFAULT_STACK_SIZE - 24)
    /\ [](current = 0 => cpu.rsp = IF pc[0] = "main" THEN MainRsp ELSE MainRsp - 8)
    /\ [][\A i \in Slots :
            (threads[i].state = "Ready" /\ threads'[i].state = "Ready") =>
                threads'[i].ctx = threads[i].ctx]_vars
    /\ [][\A i \in Slots :
            (current' = i /\ current # i) =>
                /\ YieldCall \/ ReturnCall
                /\ threads[i].state = "Ready"
                /\ Load(threads, osstack, threads[i].ctx.rsp) = SwitchRet =>
                        /\ SavedRegs(cpu') = SavedRegs(threads[i].ctx)
                        /\ cpu'.rsp = threads[i].ctx.rsp + 8
                                        + (IF pc[i] = "run" THEN 8 ELSE 16)]_vars

\* a body runs its second iteration or a later one after other slots ran
C12_Witness ==
    /\ current # 0
    /\ pc[current] = "body"
    /\ ret[current] = "true"
    /\ body[current].i >= 1
    /\ completed >= 1
    /\ spawned >= 3

(***************************************************************************)
(* C13: the first switch into a spawned slot starts the body passed to     *)
(* that spawn at its entry, and when the body returns the next code is     *)
(* guard, which calls t_return once for that body.                         *)
(***************************************************************************)
\* a body was placed in slot a and no switch has entered it yet
Unstarted(a) == threads[a].state = "Ready" /\ pc[a] \in {"none", "guard"}

\* the bodies placed in slots that have not returned yet
LiveBodies == {i \in Slots : i # 0 /\ threads[i].state # "Available"}

\* spawn leaves f where the first switch finds it, and nothing moves it
C13_SpawnedEntryKept ==
    /\ \A n \in 0 .. MaxIter : \A a \in Slots :
            (Spawn(n) /\ uses'[a] = uses[a] + 1) =>
                /\ Unstarted(a)'
                /\ Load(threads', osstack', threads'[a].ctx.rsp) = FnAddr(n)
    /\ \A a \in Slots :
            (Unstarted(a) /\ Unstarted(a)') =>
                /\ threads'[a].ctx.rsp = threads[a].ctx.rsp
                /\ Load(threads', osstack', threads'[a].ctx.rsp)
                        = Load(threads, osstack, threads[a].ctx.rsp)

\* the first switch into slot a enters the body spawn left there
C13_EntersBody(a) ==
    (Unstarted(a) /\ current' = a) =>
        /\ pc'[a] = "body"
        /\ body'[a].i = 0
        /\ FnAddr(body'[a].n) = Load(threads, osstack, threads[a].ctx.rsp)
        /\ cpu'.rsp = StackBase(a) + DEFAULT_STACK_SIZE - 24
        /\ ret'[a] = "none"
        /\ halted' = "no"

\* a returning body pops guard, and guard's t_return counts once per body
C13_ReturnsToGuard ==
    ReturnCall =>
        /\ Load(threads, osstack, cpu.rsp) = GuardAddr
        /\ pc'[current] = "guard"
        /\ completed' = completed + 1

\* The claim as stated: the registers the body starts with are not an image
\* an earlier body of the slot left either.
C13_Original ==
    /\ [](completed + Cardinality(LiveBodies) = SumUses(MAX_THREADS - 1))
    /\ [][/\ C13_SpawnedEntryKept
          /\ C13_ReturnsToGuard
          /\ \A a \in Slots :
                /\ C13_EntersBody(a)
                /\ (Unstarted(a) /\ current' = a) =>
                        SavedRegs(threads[a].ctx) = SavedRegs(ThreadContext)]_vars

\* Amended: control and stack pointer come from that spawn; the callee-saved
\* registers are whatever the slot's context held.
C13_FirstSwitch ==
    /\ [](completed + Cardinality(LiveBodies) = SumUses(MAX_THREADS - 1))
    /\ [][/\ C13_SpawnedEntryKept
          /\ C13_ReturnsToGuard
          /\ \A a \in Slots : C13_EntersBody(a)]_vars

\* the second body of a slot has started, the context of the slot still
\* holding the registers saved when the first body's t_return switched away
C13_Witness ==
    \E a \in Slots :
        /\ uses[a] >= 2
        /\ current = a
        /\ pc[a] = "body"
        /\ body[a].i = 0
        /\ threads[a].ctx.r12 >= 1
        /\ halted = "no"

(***************************************************************************)
(* C14: with the base and the size of a stack buffer multiples of 16, the  *)
(* stack pointer is aligned as the System V ABI wants it at a function's   *)
(* entry, (rsp + 8) mod 16 = 0, both when the first switch enters the body *)
(* and when the body's return enters guard.                                *)
(***************************************************************************)
EntryAligned(rsp) == (rsp + 8) % 16 = 0

BuffersAligned == DEFAULT_STACK_SIZE % 16 = 0 /\ \A i \in Slots : StackBase(i) % 16 = 0

C14_EntryAlignment ==
    [][BuffersAligned =>
        /\ \A a \in Slots : (Unstarted(a) /\ current' = a) => EntryAligned(cpu'.rsp)
        /\ (ReturnCall /\ Load(threads, osstack, cpu.rsp) = GuardAddr) =>
                EntryAligned(RetPop(cpu.rsp))]_vars

(***************************************************************************)
(* C15: the context of a slot is written only by switch (and zeroed when   *)
(* the slot is created); spawn, t_yield outside its call of switch,        *)
(* t_return, guard and run write no field of it.                           *)
(***************************************************************************)
\* a step in which t_yield reaches its call of switch
SwitchStep == (YieldCall \/ ReturnCall) /\ current' # current

LiveAtSwitch ==
    IF BodyIter THEN [cpu EXCEPT !.rbx = body[current].i + 1, !.rsp = @ - 24]
    ELSE IF MainYield THEN [cpu EXCEPT !.rsp = @ - 24]
    ELSE [cpu EXCEPT !.rsp = @ - 16]

C16_SwitchFrame ==
    [][SwitchStep =>
        /\ threads[current].state = "Running"
        /\ threads'[current].state = IF ReturnCall THEN "Available" ELSE "Ready"
        /\ threads[current'].state = "Ready"
        /\ threads'[current'].state = "Running"
        /\ threads'[current].ctx = LiveAtSwitch
        /\ threads'[current'].ctx = threads[current'].ctx
        /\ \A k \in Slots \ {current, current'} :
                /\ threads'[k].state = threads[k].state
                /\ threads'[k].ctx = threads[k].ctx]_vars

\* both kinds of switch have happened: a body lies Ready with its advanced
\* counter saved, and a finished slot lies Available
C16_Witness ==
    \E i \in Slots \ {0} : \E k \in Slots \ {0, i} :
        /\ threads[i].state = "Ready"
        /\ pc[i] = "body"
        /\ threads[i].ctx.rbx >= 1
        /\ threads[k].state = "Available"
        /\ pc[k] = "guard"

(***************************************************************************)
(* C17: a spawn that succeeds takes the lowest Available slot and changes  *)
(* only it: its state becomes Ready, its saved rsp and the two words at    *)
(* the top of its stack are set. current, every other slot and the running *)
(* code stay as they were: spawn does not transfer control.                *)
(***************************************************************************)
C17_SpawnFrame ==
    [][(SpawnCall /\ halted' = "no") =>
        /\ \E a \in Slots :
            /\ threads[a].state = "Available"
            /\ \A j \in 0 .. (a - 1) : threads[j].state # "Available"
            /\ \E n \in 0 .. MaxIter :
                threads'[a] =
                    [id |-> threads[a].id,
                     stack |-> [threads[a].stack EXCEPT
                                    ![DEFAULT_STACK_SIZE - 24] = GuardAddr,
                                    ![DEFAULT_STACK_SIZE - 32] = FnAddr(n)],
                     ctx |-> [threads[a].ctx EXCEPT
                                    !.rsp = StackBase(a) + DEFAULT_STACK_SIZE - 32],
                     state |-> "Ready"]
            /\ \A i \in Slots \ {a} : threads'[i] = threads[i]
        /\ current' = current
        /\ cpu' = cpu
        /\ osstack' = osstack
        /\ pc' = pc
        /\ body' = body]_vars

\* a slot that had been used was given a new body while another body runs
C17_Witness ==
    \E a \in Slots :
        /\ Unstarted(a)
        /\ uses[a] >= 2
        /\ current \notin {0, a}
        /\ halted = "no"

(***************************************************************************)
(* C18: whenever a slot other than 0 is running, slot 0 is Ready; so a     *)
(* t_yield called in a body or by t_return finds a Ready slot, switches,   *)
(* and never returns false.                                                *)
(***************************************************************************)
C18_MainReady ==
    /\ [](current # 0 => threads[0].state = "Ready")
    /\ [](\A i \in Slots \ {0} : ret[i] # "false")
    /\ [][(BodyIter \/ ReturnCall) => (AnyReady(threads) /\ current' # current)]_vars

\* a body that yielded has been resumed while slot 0 waits
C18_Witness ==
    /\ current # 0
    /\ threads[0].state = "Ready"
    /\ ret[current] = "true"
    /\ completed >= 1
    /\ halted = "no"

(***************************************************************************)
(* C19: slot 0 is never Available, so spawn never places a body in it, and *)
(* spawn never overwrites the stack or the saved rsp of a slot that is     *)
(* Running or Ready, the slot that calls spawn included.                   *)
(***************************************************************************)
C19_MainNeverSpawned ==
    /\ [](threads[0].state # "Available" /\ uses[0] = 0)
    /\ [][SpawnCall =>
            \A i \in Slots :
                threads[i].state # "Available" =>
                    /\ uses'[i] = uses[i]
                    /\ threads'[i].stack = threads[i].stack
                    /\ threads'[i].ctx = threads[i].ctx]_vars

\* main() has not run since its first switch, so a body called the spawn
\* that reused a slot, slot 0 being Ready
C19_Witness ==
    /\ ret[0] = "none"
    /\ current # 0
    /\ threads[0].state = "Ready"
    /\ \E a \in Slots : uses[a] >= 2

(***************************************************************************)
(* C20: a Ready slot is passed over by at most MAX_THREADS - 2 switches:   *)
(* the switch after them, at the latest the (MAX_THREADS - 1)-th since the *)
(* slot is Ready, selects it, whatever is spawned or returns in between.   *)
(***************************************************************************)
C20_BoundedWaiting == \A i \in Slots : waits[i] <= MAX_THREADS - 2

\* a slot has been passed over as often as the bound allows
C20_Witness ==
    \E i \in Slots :
        /\ waits[i] = MAX_THREADS - 2
        /\ threads[i].state = "Ready"
        /\ completed >= 1

====
